---- MODULE Spec2Model ----
(***************************************************************************)
(* muses-pi, image.py: an hourly scheduler (main thread) and a button      *)
(* listener (daemon thread) both call refresh_image(), which fetches an    *)
(* image URL, downloads the image into images/<timestamp>.png, falls back  *)
(* to the newest saved .png, and renders it on the Inky panel.             *)
(***************************************************************************)
EXTENDS Integers, Sequences, FiniteSets, TLC

VARIABLES
    now,        \* wall clock, whole seconds of the day (datetime.now())
    files,      \* images/ directory: file name -> [content, mtime]
    made,       \* names of the files that download_image has saved
    pc,         \* per thread: position in auto_refresh / button_listener / refresh_image
    image_url,  \* per thread: refresh_image's local image_url
    image_path, \* per thread: the local image_path of download_image and refresh_image
    image,      \* per thread: the local image of download_image and update_display
    log,        \* per thread: script.log lines written since the refresh in progress began
    calls,      \* per thread: collaborator calls made since the refresh in progress began
    inkySat,    \* whether the detected panel's set_image accepts saturation=
    inkyBuf,    \* the panel's frame buffer (last set_image)
    inkyShown,  \* the frame last committed by show()
    wake,       \* the scheduler's wake-up time while it sleeps
    batch,      \* edge events of the current read_edge_events() batch not yet handled
    handled,    \* number of edge events the listener has handled
    handledB,   \* number of those that came from button B's line
    pressLog,   \* number of "Button press detected" log lines
    started,    \* per thread: number of refresh_image() calls made
    finished,   \* per thread: number of refresh_image() calls that have returned
    resp,       \* fetch_image_url harness: the metadata response under test
    fetched,    \* fetch_image_url harness: the outcome of fetch_image_url on resp
    scan,       \* get_latest_saved_image harness: the directory and its listing
    latest,     \* get_latest_saved_image harness: what it returned for scan
    missed,     \* hour boundaries that passed while a scheduled refresh was in progress
    quota       \* edge events the GPIO lines deliver in the run

vars == <<now, files, made, pc, image_url, image_path, image, log, calls,
          inkySat, inkyBuf, inkyShown, wake, batch, handled,
          handledB, pressLog, started, finished, resp, fetched, scan, latest,
          missed, quota>>

(***************************************************************************)
(* Bounds of the model.                                                    *)
(***************************************************************************)
Lead == 1           \* the process starts Lead seconds before 01:00:00
ClockSpan == 2      \* the clock runs from StartTime to StartTime + ClockSpan
StartTime == 60 * 60 - Lead
MaxEvents == 1      \* edge events the listener reads in a run
MaxMtime == 2       \* modification times of the directories given to get_latest_saved_image
HourSpan == 2       \* hours the scheduler is followed for, from StartTime

(***************************************************************************)
(* Module-level configuration.                                             *)
(***************************************************************************)
API_URL == "https://muses.robr.app/entry"
BUTTONS == <<5, 6, 16, 24>>
LABELS == <<"A", "B", "C", "D">>
\* chip.line_offset_from_id(id): on the Pi's gpiochip the offset of a BCM
\* line is its number.
line_offset_from_id(id) == id
OFFSETS == [i \in DOMAIN BUTTONS |-> line_offset_from_id(BUTTONS[i])]
Sched == "sched"
Btn == "btn"
Threads == {Sched, Btn}

(***************************************************************************)
(* Python values as they come out of response.json().                      *)
(***************************************************************************)
None == [t |-> "null"]
PyStr(s) == [t |-> "str", v |-> s]
PyList == [t |-> "list"]          \* an empty list
PyDict(m) == [t |-> "dict", m |-> m]
NoKeys == [k \in {} |-> None]

Truthy(x) ==
    CASE x.t = "null" -> FALSE
      [] x.t = "str"  -> x.v # ""
      [] x.t = "list" -> FALSE
      [] x.t = "dict" -> DOMAIN x.m # {}

\* x.get(key, default): only a dict has .get; anything else raises AttributeError.
HasGet(x) == x.t = "dict"
DictGet(x, key, default) == IF key \in DOMAIN x.m THEN x.m[key] ELSE default

(***************************************************************************)
(* The metadata responses of the model.                                    *)
(***************************************************************************)
Url1 == "https://img/1"
Smalls == {None, PyStr(""), PyStr(Url1)}
ImagesValues ==
    {None, PyStr("x"), PyList, PyDict(NoKeys)}
        \cup {PyDict([small |-> s]) : s \in Smalls}
JsonValues ==
    {None, PyList, PyStr("x"), PyDict(NoKeys)}
        \cup {PyDict([images |-> i]) : i \in ImagesValues}
Malformed == [t |-> "malformed"]
Bodies == {Malformed} \cup JsonValues
Statuses == {200, 201, 300, 404, 500}
NetError == [kind |-> "neterr"]
Responses ==
    {NetError} \cup {[kind |-> "http", status |-> s, body |-> b] : s \in Statuses, b \in Bodies}

\* response.raise_for_status(): raises HTTPError for 4xx and 5xx only.
RaisesForStatus(status) == 400 <= status /\ status < 600

Info(m) == [lvl |-> "INFO", msg |-> m]
Warning(m) == [lvl |-> "WARNING", msg |-> m]
Error(m) == [lvl |-> "ERROR", msg |-> m]

Returned(v, lines) == [exc |-> "none", ret |-> v, log |-> lines]
Raised(e) == [exc |-> e, ret |-> None, log |-> <<>>]

\* data.get("images", {}).get("small")
fetch_GetSmall(data) ==
    IF ~HasGet(data) THEN Raised("AttributeError")
    ELSE LET images == DictGet(data, "images", PyDict(NoKeys))
         IN  IF ~HasGet(images) THEN Raised("AttributeError")
             ELSE LET url == DictGet(images, "small", None)
                  IN  Returned(url,
                               IF Truthy(url) THEN <<Info("Fetched image URL")>>
                               ELSE <<Warning("No image URL found in API response.")>>)

\* fetch_image_url() on the response r of requests.get(API_URL, timeout=10).
\* requests.RequestException covers connection errors and timeouts, the
\* HTTPError of raise_for_status() and the JSONDecodeError of response.json().
fetch_image_url(r) ==
    IF r.kind = "neterr" \/ RaisesForStatus(r.status) \/ r.body = Malformed
    THEN Returned(None, <<Error("Error fetching image URL")>>)
    ELSE fetch_GetSmall(r.body)


(***************************************************************************)
(* The clock and the cache directory.                                      *)
(***************************************************************************)
Hour(n) == (n \div 3600) % 24
Minute(n) == (n \div 60) % 60
Second(n) == n % 60

\* Variant: the format stops at the minute ("%Y%m%d_%H%M").
Timestamp_MinuteResolution(n) == <<Hour(n), Minute(n), 0>>

\* datetime.now().strftime("%Y%m%d_%H%M%S") within one day: the date part is
\* the same for every reading of the model's clock and is left out.
Timestamp(n) == <<Hour(n), Minute(n), Second(n)>>

\* os.path.join(IMAGE_DIR, f"{timestamp}.png")
PngName(stamp) == [stem |-> stamp, ext |-> "png"]
Path(name) == [t |-> "path", name |-> name]
IsPath(x) == x.t = "path"

\* f.endswith(".png")
IsPng(name) == name.ext = "png"

Images == {"imgA", "imgB"}      \* what the image endpoint may serve
FileOf(img, mtime) == [content |-> img, mtime |-> mtime]

\* Variant: saving also clears what is not an image out of the directory.
SaveImage_Prune(dir, name, img, n) ==
    [f \in {g \in DOMAIN dir : IsPng(g)} \cup {name} |->
        IF f = name THEN FileOf(img, n) ELSE dir[f]]

\* image.save(image_path) at clock reading n: creates the file or replaces
\* its content.
SaveImage(dir, name, img, n) ==
    [f \in DOMAIN dir \cup {name} |-> IF f = name THEN FileOf(img, n) ELSE dir[f]]

Old1 == PngName(<<0, 10, 0>>)
Old2 == PngName(<<0, 20, 0>>)
Note == [stem |-> <<0, 30, 0>>, ext |-> "txt"]
EmptyDir == [f \in {} |-> FileOf("imgA", 0)]
DirOf(names, mt) == [f \in names |-> FileOf("imgA", mt[f])]
\* What images/ may hold when the process starts (os.makedirs(exist_ok=True)
\* keeps what is there): nothing; or two .png files whose mtime order is the
\* reverse of their name order, and a .txt file modified after both.
InitDirs ==
    { EmptyDir,
      DirOf({Old1, Old2, Note},
            [f \in {Old1, Old2, Note} |-> IF f = Old1 THEN 2 ELSE IF f = Old2 THEN 1 ELSE 3]) }

\* The clock second a file name encodes; what is not a .png sorts last.
NameKey(name) ==
    (IF IsPng(name) THEN 0 ELSE 86400)
        + name.stem[1] * 3600 + name.stem[2] * 60 + name.stem[3]
RECURSIVE ByName(_)
ByName(S) ==
    IF S = {} THEN <<>>
    ELSE LET m == CHOOSE x \in S : \A y \in S : NameKey(x) <= NameKey(y)
         IN  <<m>> \o ByName(S \ {m})
Reverse(s) == [i \in 1..Len(s) |-> s[Len(s) + 1 - i]]

\* os.listdir() returns the entries in arbitrary order: every order of the
\* directory's names is a listing it may return.
RECURSIVE ListingOrders(_)
ListingOrders(S) ==
    IF S = {} THEN {<<>>}
    ELSE UNION {{<<x>> \o l : l \in ListingOrders(S \ {x})} : x \in S}
Listings(dir) == ListingOrders(DOMAIN dir)

\* sorted(..., key=getmtime, reverse=True): a stable sort, so files of equal
\* mtime keep their listing order.
RECURSIVE InsertByMtimeDesc(_, _, _)
InsertByMtimeDesc(dir, sorted, x) ==
    IF sorted = <<>> THEN <<x>>
    ELSE IF dir[Head(sorted)].mtime >= dir[x].mtime
         THEN <<Head(sorted)>> \o InsertByMtimeDesc(dir, Tail(sorted), x)
         ELSE <<x>> \o sorted
RECURSIVE SortedByMtimeDesc(_, _)
SortedByMtimeDesc(dir, s) ==
    IF s = <<>> THEN <<>>
    ELSE InsertByMtimeDesc(dir, SortedByMtimeDesc(dir, SubSeq(s, 1, Len(s) - 1)), s[Len(s)])

\* Variant: reverse=True forgotten, the oldest file comes first.
get_latest_saved_image_Oldest(dir, listing) ==
    LET sorted == Reverse(SortedByMtimeDesc(dir, SelectSeq(listing, IsPng)))
    IN  IF sorted # <<>> THEN Path(sorted[1]) ELSE None

\* Variant: the files are ordered by their timestamp-encoded names, not by mtime.
get_latest_saved_image_ByName(dir, listing) ==
    LET sorted == Reverse(ByName({listing[i] : i \in {j \in DOMAIN listing : IsPng(listing[j])}}))
    IN  IF sorted # <<>> THEN Path(sorted[1]) ELSE None

\* get_latest_saved_image() over the directory dir as listed in order listing.
get_latest_saved_image(dir, listing) ==
    LET sorted == SortedByMtimeDesc(dir, SelectSeq(listing, IsPng))
    IN  IF sorted # <<>> THEN Path(sorted[1]) ELSE None


(***************************************************************************)
(* Initial state: the module has been imported, no thread has run yet.     *)
(***************************************************************************)
NoImage == "none"
NoResponse == [kind |-> "none"]
NotFetched == [exc |-> "pending", ret |-> None, log |-> <<>>]
NoScan == [readable |-> TRUE, dir |-> EmptyDir, listing |-> <<>>]
NotScanned == [t |-> "pending"]

Init ==
    /\ now = StartTime
    /\ files \in InitDirs
    /\ made = {}
    /\ pc = [t \in Threads |-> IF t = Sched THEN "loop" ELSE "read"]
    /\ image_url = [t \in Threads |-> None]
    /\ image_path = [t \in Threads |-> None]
    /\ image = [t \in Threads |-> NoImage]
    /\ log = [t \in Threads |-> <<>>]
    /\ calls = [t \in Threads |-> <<>>]
    /\ inkySat \in BOOLEAN
    /\ inkyBuf = NoImage
    /\ inkyShown = NoImage
    /\ wake = 0
    /\ batch = <<>>
    /\ handled = 0
    /\ handledB = 0
    /\ pressLog = 0
    /\ started = [t \in Threads |-> 0]
    /\ finished = [t \in Threads |-> 0]
    /\ resp = NoResponse
    /\ fetched = NotFetched
    /\ scan = NoScan
    /\ latest = NotScanned
    /\ missed = 0
    /\ quota = MaxEvents

\* An uncaught exception ends the thread it is raised in. When it is the main
\* thread, the interpreter reports the exception and shuts down; the daemon
\* listener thread keeps running until the process has exited.
At(t, p) == pc[t] = p /\ pc[Sched] # "exited"

Call(op, arg) == [op |-> op, arg |-> arg]
SaveCall(name, n, isNew) == [op |-> "image.save", name |-> name, at |-> n, isNew |-> isNew]
\* get_latest_saved_image(): what os.listdir() and os.path.getmtime() showed
\* it, or that one of them raised.
ScanCall(dir) == [op |-> "get_latest_saved_image", raised |-> FALSE, saw |-> dir]
ScanRaised == [op |-> "get_latest_saved_image", raised |-> TRUE, saw |-> EmptyDir]

panelVars == <<inkySat, inkyBuf, inkyShown>>
listenerVars == <<batch, handled, handledB, pressLog>>
harnessVars == <<resp, fetched, scan, latest, missed, quota>>

(***************************************************************************)
(* refresh_image()                                                         *)
(***************************************************************************)
\* Entry of refresh_image() on thread t: logging.info("Refreshing image...").
EnterRefresh(t) ==
    /\ started' = [started EXCEPT ![t] = @ + 1]
    /\ log' = [log EXCEPT ![t] = <<Info("Refreshing image...")>>]
    /\ calls' = [calls EXCEPT ![t] = <<>>]
    /\ image_url' = [image_url EXCEPT ![t] = None]
    /\ image_path' = [image_path EXCEPT ![t] = None]
    /\ image' = [image EXCEPT ![t] = NoImage]
    /\ UNCHANGED finished

\* Variant: download_image is called whatever fetch_image_url returned.
AfterFetch_AlwaysDownload(url) == "download"

\* image_path = download_image(image_url) if image_url else None
AfterFetch(url) == IF Truthy(url) THEN "download" ELSE "fallback"

\* Truthiness of refresh_image's image_path: None or a non-empty path string.
PathTruthy(path) == IsPath(path)

\* Variant: the fallback is taken even when the download produced a path.
AfterDownload_AlwaysFallback(path) == "fallback"

\* if not image_path: ... get_latest_saved_image()
AfterDownload(path) == IF ~PathTruthy(path) THEN "fallback" ELSE "update_display"

\* What fetch_image_url() can do, over the responses of the model.
FetchOutcomes == {fetch_image_url(r) : r \in Responses}

\* image_url = fetch_image_url()
Fetch(t) ==
    /\ At(t, "fetch")
    /\ \E out \in FetchOutcomes :
             /\ calls' = [calls EXCEPT ![t] = Append(@, Call("fetch_image_url", PyStr(API_URL)))]
             /\ IF out.exc = "none"
                THEN /\ image_url' = [image_url EXCEPT ![t] = out.ret]
                     /\ log' = [log EXCEPT ![t] = @ \o out.log]
                     /\ pc' = [pc EXCEPT ![t] = AfterFetch(out.ret)]
                ELSE /\ pc' = [pc EXCEPT ![t] = "crashed"]
                     /\ UNCHANGED <<image_url, log>>
    /\ UNCHANGED <<now, files, made, image_path, image, wake, started, finished>>
    /\ UNCHANGED <<panelVars, listenerVars, harnessVars>>

\* download_image(image_url): the outcomes of requests.get(image_url) with
\* raise_for_status() and of Image.open().
DownloadOutcomes == {"request error", "processing error", "opened"}

\* Variant: a download that fails leaves a file behind.
DownloadFails_LeavesFile(t, o) ==
    /\ log' = [log EXCEPT ![t] =
                 Append(@, IF o = "request error" THEN Error("Error downloading image")
                           ELSE Error("Unexpected error processing image"))]
    /\ image_path' = [image_path EXCEPT ![t] = None]
    /\ files' = SaveImage(files, PngName(Timestamp(now)), "imgA", now)
    /\ UNCHANGED made

\* except requests.RequestException / except Exception: log, return None.
DownloadFails(t, o) ==
    /\ log' = [log EXCEPT ![t] =
                 Append(@, IF o = "request error" THEN Error("Error downloading image")
                           ELSE Error("Unexpected error processing image"))]
    /\ image_path' = [image_path EXCEPT ![t] = None]
    /\ UNCHANGED <<files, made>>

\* timestamp = datetime.now().strftime(...), read at clock second n.
StampCall(n) == [op |-> "datetime.now", at |-> n]

\* The image img was fetched and decoded: the clock is read and the path
\* image_path made of the time stamp; image.save() is still to come.
DownloadOpens(t, img) ==
    /\ image' = [image EXCEPT ![t] = img]
    /\ image_path' = [image_path EXCEPT ![t] = Path(PngName(Timestamp(now)))]
    /\ calls' = [calls EXCEPT ![t] = @ \o <<Call("download_image", image_url[t]), StampCall(now)>>]
    /\ pc' = [pc EXCEPT ![t] = "save"]
    /\ UNCHANGED <<files, made, log>>

\* download_image(image_url) up to line 78: the request, Image.open() and the
\* time stamp.
Download(t) ==
    /\ At(t, "download")
    /\ \E o \in DownloadOutcomes :
         IF o = "opened" THEN \E img \in Images : DownloadOpens(t, img)
         ELSE /\ DownloadFails(t, o)
              /\ calls' = [calls EXCEPT ![t] = Append(@, Call("download_image", image_url[t]))]
              /\ pc' = [pc EXCEPT ![t] = AfterDownload(image_path'[t])]
              /\ UNCHANGED image
    /\ UNCHANGED <<now, image_url, wake, started, finished>>
    /\ UNCHANGED <<panelVars, listenerVars, harnessVars>>

\* image.save(image_path) succeeds, at whatever the clock shows by then: the
\* file is written, the save logged and the path returned.
DownloadSaves(t) ==
    LET name == image_path[t].name
    IN  /\ files' = SaveImage(files, name, image[t], now)
        /\ made' = made \cup {name}
        /\ log' = [log EXCEPT ![t] = Append(@, Info("Saved new image"))]
        /\ calls' = [calls EXCEPT ![t] = Append(@, SaveCall(name, now, name \notin DOMAIN files))]
        /\ UNCHANGED image_path

\* download_image(image_url) from line 79: image.save() writes the file, or
\* raises and the handler of line 87 returns None.
Save(t) ==
    /\ At(t, "save")
    /\ \/ DownloadSaves(t)
       \/ DownloadFails(t, "processing error") /\ UNCHANGED calls
    /\ image' = [image EXCEPT ![t] = NoImage]
    /\ pc' = [pc EXCEPT ![t] = AfterDownload(image_path'[t])]
    /\ UNCHANGED <<now, image_url, wake, started, finished>>
    /\ UNCHANGED <<panelVars, listenerVars, harnessVars>>

\* Variant: the fall-back is logged at INFO level.
FallbackWarning_AsInfo == Info("Falling back to last saved image.")

\* logging.warning("Falling back to last saved image.")
FallbackWarning == Warning("Falling back to last saved image.")

\* if not image_path: warn; image_path = get_latest_saved_image()
Fallback(t) ==
    /\ At(t, "fallback")
    /\ \/ \E listing \in Listings(files) :
            /\ image_path' = [image_path EXCEPT ![t] = get_latest_saved_image(files, listing)]
            /\ log' = [log EXCEPT ![t] = Append(@, FallbackWarning)]
            /\ calls' = [calls EXCEPT ![t] = Append(@, ScanCall(files))]
       \/ \* os.listdir or os.path.getmtime raises: caught, logged, None
          /\ image_path' = [image_path EXCEPT ![t] = None]
          /\ log' = [log EXCEPT ![t] = @ \o <<FallbackWarning, Error("Error retrieving saved images")>>]
          /\ calls' = [calls EXCEPT ![t] = Append(@, ScanRaised)]
    /\ pc' = [pc EXCEPT ![t] = "update_display"]
    /\ UNCHANGED <<now, files, made, image_url, image, wake, started, finished>>
    /\ UNCHANGED <<panelVars, listenerVars, harnessVars>>

(***************************************************************************)
(* update_display(image_path, saturation=0.8)                              *)
(***************************************************************************)
\* except Exception as e: logging.error(f"Error displaying image: {e}")
DisplayError(t) ==
    /\ log' = [log EXCEPT ![t] = Append(@, Error("Error displaying image"))]
    /\ pc' = [pc EXCEPT ![t] = "returned"]

\* Variant: without a path a blank frame is drawn instead of returning.
UpdateDisplay_Blank(t) ==
    /\ At(t, "update_display")
    /\ calls' = [calls EXCEPT ![t] = Append(@, Call("update_display", image_path[t]))]
    /\ image' = [image EXCEPT ![t] =
                    IF PathTruthy(image_path[t]) THEN files[image_path[t].name].content
                    ELSE "blank"]
    /\ pc' = [pc EXCEPT ![t] = "set_image"]
    /\ UNCHANGED <<log, now, files, made, image_url, image_path, wake, started, finished>>
    /\ UNCHANGED <<panelVars, listenerVars, harnessVars>>

\* if not image_path: warn and return; else Image.open() and resize().
UpdateDisplay(t) ==
    /\ At(t, "update_display")
    /\ IF ~PathTruthy(image_path[t])
       THEN /\ log' = [log EXCEPT ![t] = Append(@, Warning("No valid image found. Skipping update."))]
            /\ calls' = [calls EXCEPT ![t] = Append(@, Call("update_display", image_path[t]))]
            /\ pc' = [pc EXCEPT ![t] = "returned"]
            /\ UNCHANGED image
       ELSE /\ calls' = [calls EXCEPT ![t] = Append(@, Call("update_display", image_path[t]))]
            /\ \/ /\ image' = [image EXCEPT ![t] = files[image_path[t].name].content]
                  /\ pc' = [pc EXCEPT ![t] = "set_image"]
                  /\ UNCHANGED log
               \/ /\ DisplayError(t)
                  /\ UNCHANGED image
    /\ UNCHANGED <<now, files, made, image_url, image_path, wake, started, finished>>
    /\ UNCHANGED <<panelVars, listenerVars, harnessVars>>

\* The positions of update_display at which the panel holds an image that
\* is set but not yet shown.
PanelSection == {"show"}

\* Variant: a lock around the panel, taken before set_image.
EnterPanel_Locked(t) == At(t, "set_image") /\ \A u \in Threads \ {t} : pc[u] \notin PanelSection

\* Nothing guards the panel: a thread calls set_image as soon as it gets there.
EnterPanel(t) == At(t, "set_image")

SetImageSat == Call("inky.set_image", PyStr("saturation"))
SetImagePlain == Call("inky.set_image", PyStr(""))
SetBorderBlack == Call("inky.set_border", PyStr("BLACK"))

\* Variant: the retry passes saturation again.
SetImageRetried_WithSaturation == <<SetImageSat, SetImageSat>>

\* The panel calls of the try block when set_image(..., saturation=) raises
\* TypeError: the call that raised, then the retry of the except clause.
SetImageRetried == <<SetImageSat, SetImagePlain>>

\* The panel calls of the try block when set_border() raises TypeError after
\* set_image(..., saturation=) went through: the except clause runs as well.
BorderRetried == <<SetImageSat, SetBorderBlack, SetImagePlain>>

\* try: inky.set_image(resized_image, saturation=saturation)
\*      inky.set_border(inky.BLACK)
\* except TypeError: inky.set_image(resized_image)
\* A panel whose set_image takes no saturation raises TypeError, and so may
\* set_border: the except clause catches a TypeError of either call. Any
\* other exception of a panel call goes to the handler of update_display.
SetImage(t) ==
    /\ EnterPanel(t)
    /\ IF inkySat
       THEN \/ /\ calls' = [calls EXCEPT ![t] = @ \o <<SetImageSat, SetBorderBlack>>]
               /\ inkyBuf' = image[t]
               /\ pc' = [pc EXCEPT ![t] = "show"]
               /\ UNCHANGED log
            \/ /\ calls' = [calls EXCEPT ![t] = @ \o <<SetImageSat, SetBorderBlack>>]
               /\ inkyBuf' = image[t]
               /\ DisplayError(t)
            \/ \* set_border raises TypeError: set_image is called again
               /\ calls' = [calls EXCEPT ![t] = @ \o BorderRetried]
               /\ inkyBuf' = image[t]
               /\ \/ pc' = [pc EXCEPT ![t] = "show"] /\ UNCHANGED log
                  \/ DisplayError(t)
            \/ /\ calls' = [calls EXCEPT ![t] = Append(@, SetImageSat)]
               /\ DisplayError(t)
               /\ UNCHANGED inkyBuf
       ELSE \/ /\ calls' = [calls EXCEPT ![t] = @ \o SetImageRetried]
               /\ inkyBuf' = image[t]
               /\ pc' = [pc EXCEPT ![t] = "show"]
               /\ UNCHANGED log
            \/ /\ calls' = [calls EXCEPT ![t] = @ \o SetImageRetried]
               /\ DisplayError(t)
               /\ UNCHANGED inkyBuf
    /\ UNCHANGED <<now, files, made, image_url, image_path, image, wake, started, finished>>
    /\ UNCHANGED <<inkySat, inkyShown, listenerVars, harnessVars>>

\* inky.show(); logging.info("Display updated ...")
Show(t) ==
    /\ At(t, "show")
    /\ calls' = [calls EXCEPT ![t] = Append(@, Call("inky.show", None))]
    /\ \/ /\ inkyShown' = inkyBuf
          /\ log' = [log EXCEPT ![t] = Append(@, Info("Display updated"))]
          /\ pc' = [pc EXCEPT ![t] = "returned"]
       \/ /\ DisplayError(t)
          /\ UNCHANGED inkyShown
    /\ UNCHANGED <<now, files, made, image_url, image_path, image, wake, started, finished>>
    /\ UNCHANGED <<inkySat, inkyBuf, listenerVars, harnessVars>>

(***************************************************************************)
(* auto_refresh(), on the main thread                                      *)
(***************************************************************************)
\* Variant: a fixed hour of sleep after every refresh.
seconds_until_next_hour_FixedHour(n) == 60 * 60

\* Variant: the seconds of the current minute are not taken off.
seconds_until_next_hour_WholeMinutes(n) == (60 - Minute(n)) * 60

\* (60 - now.minute) * 60 - now.second
seconds_until_next_hour(n) == (60 - Minute(n)) * 60 - Second(n)

\* now = datetime.now(); compute the sleep; time.sleep(...) begins.
Sleep ==
    /\ At(Sched, "loop")
    /\ wake' = now + seconds_until_next_hour(now)
    /\ pc' = [pc EXCEPT ![Sched] = "sleep"]
    /\ UNCHANGED <<now, files, made, image_url, image_path, image, log, calls, started, finished>>
    /\ UNCHANGED <<panelVars, listenerVars, harnessVars>>

\* time.sleep() returns once the duration has passed; refresh_image() is called.
WakeUp ==
    /\ At(Sched, "sleep")
    /\ now >= wake
    /\ EnterRefresh(Sched)
    /\ pc' = [pc EXCEPT ![Sched] = "fetch"]
    /\ UNCHANGED <<now, files, made, wake>>
    /\ UNCHANGED <<panelVars, listenerVars, harnessVars>>

(***************************************************************************)
(* button_listener(), on the daemon thread                                 *)
(***************************************************************************)
\* OFFSETS.index(x): the first index holding x (0-based in Python, 1-based here).
IndexOf(seq, x) == CHOOSE i \in DOMAIN seq : seq[i] = x /\ \A j \in 1..(i - 1) : seq[j] # x

\* The batches read_edge_events() may return: one event or more (most, at
\* most), each on one of the four requested lines.
Batches(most) == UNION {[1..n -> {OFFSETS[i] : i \in DOMAIN OFFSETS}] : n \in 1..most}

\* for event in request.read_edge_events(): the next event of the batch, or,
\* the batch exhausted, the next blocking read.
AfterEvent(b) == IF b = <<>> THEN "read" ELSE "events"

\* Variant: the listener goes on with its loop while refresh_image() runs.
ListenerAt_Detached(p) == pc[Sched] # "exited" /\ pc[Btn] # "crashed"

\* The listener thread is at position p of its loop: refresh_image() is
\* called synchronously, so the loop stands still until it has returned.
ListenerAt(p) == At(Btn, p)

\* request.read_edge_events() blocks until events are there and returns them.
ReadEdgeEvents ==
    /\ ListenerAt("read")
    /\ \E b \in Batches(quota - handled) : batch' = b
    /\ pc' = [pc EXCEPT ![Btn] = "events"]
    /\ UNCHANGED <<now, files, made, image_url, image_path, image, log, calls, wake,
                   handled, handledB, pressLog, started, finished>>
    /\ UNCHANGED <<panelVars, harnessVars>>

\* Variant: the trigger is compared with the wrong label.
IsTrigger_C(label) == label = "C"

\* if label == "B"
IsTrigger(label) == label = "B"

\* One iteration of the for loop: log the press, refresh on button B.
HandleEvent ==
    /\ ListenerAt("events")
    /\ batch # <<>>
    /\ LET index == IndexOf(OFFSETS, Head(batch))
           label == LABELS[index]
       IN  /\ handled' = handled + 1
           /\ handledB' = IF Head(batch) = line_offset_from_id(6) THEN handledB + 1 ELSE handledB
           /\ pressLog' = pressLog + 1
           /\ batch' = Tail(batch)
           /\ IF IsTrigger(label)
              THEN /\ EnterRefresh(Btn)
                   /\ pc' = [pc EXCEPT ![Btn] = "fetch"]
              ELSE /\ pc' = [pc EXCEPT ![Btn] = AfterEvent(batch')]
                   /\ UNCHANGED <<started, finished, log, calls, image_url, image_path, image>>
    /\ UNCHANGED <<now, files, made, wake>>
    /\ UNCHANGED <<panelVars, harnessVars>>

(***************************************************************************)
(* refresh_image() returns                                                 *)
(***************************************************************************)
\* To auto_refresh: the while loop starts over, computes the next sleep from
\* datetime.now() and sleeps. To button_listener: the for loop goes on.
Return(t) ==
    /\ At(t, "returned")
    /\ IF t = Sched
       THEN /\ wake' = now + seconds_until_next_hour(now)
            /\ pc' = [pc EXCEPT ![t] = "sleep"]
       ELSE /\ pc' = [pc EXCEPT ![t] = AfterEvent(batch)]
            /\ UNCHANGED wake
    /\ image_url' = [image_url EXCEPT ![t] = None]
    /\ image_path' = [image_path EXCEPT ![t] = None]
    /\ image' = [image EXCEPT ![t] = NoImage]
    /\ log' = [log EXCEPT ![t] = <<>>]
    /\ calls' = [calls EXCEPT ![t] = <<>>]
    /\ finished' = [finished EXCEPT ![t] = @ + 1]
    /\ UNCHANGED <<now, files, made, started>>
    /\ UNCHANGED <<panelVars, listenerVars, harnessVars>>

(***************************************************************************)
(* The clock                                                               *)
(***************************************************************************)
Tick ==
    /\ now < StartTime + ClockSpan
    /\ now' = now + 1
    /\ UNCHANGED <<files, made, pc, image_url, image_path, image, log, calls, wake, started, finished>>
    /\ UNCHANGED <<panelVars, listenerVars, harnessVars>>

\* The main thread has ended with an uncaught exception: the process exits
\* (with status 1), wherever the daemon listener thread has got to.
ProcessExit ==
    /\ pc[Sched] = "crashed"
    /\ pc' = [pc EXCEPT ![Sched] = "exited"]
    /\ UNCHANGED <<now, files, made, image_url, image_path, image, log, calls, wake, started, finished>>
    /\ UNCHANGED <<panelVars, listenerVars, harnessVars>>

Refresh(t) ==
    \/ Fetch(t)
    \/ Download(t)
    \/ Save(t)
    \/ Fallback(t)
    \/ UpdateDisplay(t)
    \/ SetImage(t)
    \/ Show(t)
    \/ Return(t)

Next ==
    \/ Tick
    \/ Sleep
    \/ WakeUp
    \/ ReadEdgeEvents
    \/ HandleEvent
    \/ \E t \in Threads : Refresh(t)
    \/ ProcessExit

Spec == Init /\ [][Next]_vars

\* Both threads are scheduled fairly: a thread that can take its next step
\* inside refresh_image(), or handle the next event of its batch, does so,
\* and a process whose main thread has ended exits.
SpecFair ==
    /\ Spec
    /\ WF_vars(Refresh(Sched))
    /\ WF_vars(Refresh(Btn))
    /\ WF_vars(HandleEvent)
    /\ WF_vars(ProcessExit)


(***************************************************************************)
(* fetch_image_url() on its own: every response of the model, applied once *)
(***************************************************************************)
InitFetch ==
    /\ now = StartTime
    /\ files = EmptyDir
    /\ made = {}
    /\ pc = [t \in Threads |-> IF t = Sched THEN "loop" ELSE "read"]
    /\ image_url = [t \in Threads |-> None]
    /\ image_path = [t \in Threads |-> None]
    /\ image = [t \in Threads |-> NoImage]
    /\ log = [t \in Threads |-> <<>>]
    /\ calls = [t \in Threads |-> <<>>]
    /\ inkySat = TRUE
    /\ inkyBuf = NoImage
    /\ inkyShown = NoImage
    /\ wake = 0
    /\ batch = <<>>
    /\ handled = 0
    /\ handledB = 0
    /\ pressLog = 0
    /\ started = [t \in Threads |-> 0]
    /\ finished = [t \in Threads |-> 0]
    /\ resp \in Responses
    /\ fetched = NotFetched
    /\ scan = NoScan
    /\ latest = NotScanned
    /\ missed = 0
    /\ quota = MaxEvents

FetchCall ==
    /\ fetched = NotFetched
    /\ fetched' = fetch_image_url(resp)
    /\ UNCHANGED <<now, files, made, pc, image_url, image_path, image, log, calls, wake, started, finished>>
    /\ UNCHANGED <<panelVars, listenerVars, resp, scan, latest, missed, quota>>

NextFetch == FetchCall

SpecFetch == InitFetch /\ [][NextFetch]_vars


(***************************************************************************)
(* get_latest_saved_image() on its own: every directory of up to four      *)
(* entries, in every listing order, readable or not                        *)
(***************************************************************************)
ScanNames == {Old1, Old2, Note, PngName(<<1, 0, 0>>)}
ScanDirs == UNION {{DirOf(S, mt) : mt \in [S -> 1..MaxMtime]} : S \in SUBSET ScanNames}
Orderings(S) ==
    {l \in [1..Cardinality(S) -> S] : \A i, j \in 1..Cardinality(S) : i # j => l[i] # l[j]}
ScanInputs ==
    UNION {{[readable |-> r, dir |-> d, listing |-> l] : r \in BOOLEAN, l \in Orderings(DOMAIN d)}
              : d \in ScanDirs}

\* get_latest_saved_image() with its handler: an exception of os.listdir() or
\* os.path.getmtime() is logged and None returned.
LatestOutcome(s) == IF s.readable THEN get_latest_saved_image(s.dir, s.listing) ELSE None

InitLatest ==
    /\ now = StartTime
    /\ files = EmptyDir
    /\ made = {}
    /\ pc = [t \in Threads |-> IF t = Sched THEN "loop" ELSE "read"]
    /\ image_url = [t \in Threads |-> None]
    /\ image_path = [t \in Threads |-> None]
    /\ image = [t \in Threads |-> NoImage]
    /\ log = [t \in Threads |-> <<>>]
    /\ calls = [t \in Threads |-> <<>>]
    /\ inkySat = TRUE
    /\ inkyBuf = NoImage
    /\ inkyShown = NoImage
    /\ wake = 0
    /\ batch = <<>>
    /\ handled = 0
    /\ handledB = 0
    /\ pressLog = 0
    /\ started = [t \in Threads |-> 0]
    /\ finished = [t \in Threads |-> 0]
    /\ resp = NoResponse
    /\ fetched = NotFetched
    /\ scan \in ScanInputs
    /\ latest = NotScanned
    /\ missed = 0
    /\ quota = MaxEvents

LatestCall ==
    /\ latest = NotScanned
    /\ latest' = LatestOutcome(scan)
    /\ UNCHANGED <<now, files, made, pc, image_url, image_path, image, log, calls, wake, started, finished>>
    /\ UNCHANGED <<panelVars, listenerVars, resp, fetched, scan, missed, quota>>

NextLatest == LatestCall

SpecLatest == InitLatest /\ [][NextLatest]_vars


(***************************************************************************)
(* One cycle of auto_refresh() on its own, entered at every minute and     *)
(* second of the first and of the last hour of a day                       *)
(***************************************************************************)
SleepTimes == (0..(3600 - 1)) \cup ((23 * 3600)..(24 * 3600 - 1))

InitSleep ==
    /\ now \in SleepTimes
    /\ files = EmptyDir
    /\ made = {}
    /\ pc = [t \in Threads |-> IF t = Sched THEN "loop" ELSE "read"]
    /\ image_url = [t \in Threads |-> None]
    /\ image_path = [t \in Threads |-> None]
    /\ image = [t \in Threads |-> NoImage]
    /\ log = [t \in Threads |-> <<>>]
    /\ calls = [t \in Threads |-> <<>>]
    /\ inkySat = TRUE
    /\ inkyBuf = NoImage
    /\ inkyShown = NoImage
    /\ wake = 0
    /\ batch = <<>>
    /\ handled = 0
    /\ handledB = 0
    /\ pressLog = 0
    /\ started = [t \in Threads |-> 0]
    /\ finished = [t \in Threads |-> 0]
    /\ resp = NoResponse
    /\ fetched = NotFetched
    /\ scan = NoScan
    /\ latest = NotScanned
    /\ missed = 0
    /\ quota = MaxEvents

\* time.sleep(seconds_until_next_hour) runs its course: the clock reaches the
\* wake-up time.
SleepThrough ==
    /\ At(Sched, "sleep")
    /\ now < wake
    /\ now' = wake
    /\ UNCHANGED <<files, made, pc, image_url, image_path, image, log, calls, wake, started, finished>>
    /\ UNCHANGED <<panelVars, listenerVars, harnessVars>>

NextSleep ==
    \/ Sleep
    \/ SleepThrough
    \/ WakeUp

SpecSleep == InitSleep /\ [][NextSleep]_vars


(***************************************************************************)
(* auto_refresh() over several hours: the scheduler alone, the clock moved *)
(* by its sleeps and by half-hours that pass while a refresh is running    *)
(***************************************************************************)
HalfHour == 30 * 60
RefreshPcs == {"fetch", "download", "save", "fallback", "update_display", "set_image", "show", "returned"}
InRefresh(t) == pc[t] \in RefreshPcs

\* The hour boundaries in the interval (a, b].
Boundaries(a, b) == b \div 3600 - a \div 3600

\* refresh_image() is running on the main thread and another half-hour
\* passes (a request that hangs, a panel that is slow to draw).
RefreshRuns ==
    /\ pc[Sched] \in RefreshPcs
    /\ now + HalfHour <= StartTime + HourSpan * 3600
    /\ now' = now + HalfHour
    /\ missed' = missed + Boundaries(now, now')
    /\ UNCHANGED <<files, made, pc, image_url, image_path, image, log, calls, wake, started, finished>>
    /\ UNCHANGED <<panelVars, listenerVars, resp, fetched, scan, latest, quota>>

\* The run is followed to the last boundary within HourSpan hours.
WithinHours == wake <= StartTime + HourSpan * 3600

NextHours ==
    \/ Sleep
    \/ WithinHours /\ SleepThrough
    \/ WakeUp
    \/ Refresh(Sched)
    \/ RefreshRuns
    \/ ProcessExit

SpecHours == Init /\ [][NextHours]_vars


(***************************************************************************)
(* Both threads with one more edge event than MaxEvents, on an empty cache *)
(* directory and a panel that takes saturation, up to the first hour       *)
(***************************************************************************)
InitPresses ==
    /\ now = StartTime
    /\ files = EmptyDir
    /\ made = {}
    /\ pc = [t \in Threads |-> IF t = Sched THEN "loop" ELSE "read"]
    /\ image_url = [t \in Threads |-> None]
    /\ image_path = [t \in Threads |-> None]
    /\ image = [t \in Threads |-> NoImage]
    /\ log = [t \in Threads |-> <<>>]
    /\ calls = [t \in Threads |-> <<>>]
    /\ inkySat = TRUE
    /\ inkyBuf = NoImage
    /\ inkyShown = NoImage
    /\ wake = 0
    /\ batch = <<>>
    /\ handled = 0
    /\ handledB = 0
    /\ pressLog = 0
    /\ started = [t \in Threads |-> 0]
    /\ finished = [t \in Threads |-> 0]
    /\ resp = NoResponse
    /\ fetched = NotFetched
    /\ scan = NoScan
    /\ latest = NotScanned
    /\ missed = 0
    /\ quota = MaxEvents + 1

\* Both threads; the clock moves only by the scheduler's first sleep.
NextPresses ==
    \/ Sleep
    \/ started[Sched] = 0 /\ SleepThrough
    \/ WakeUp
    \/ ReadEdgeEvents
    \/ HandleEvent
    \/ \E t \in Threads : Refresh(t)
    \/ ProcessExit

SpecPresses == InitPresses /\ [][NextPresses]_vars


(***************************************************************************)
(* Reading the per-refresh histories                                       *)
(***************************************************************************)
Has(s, op) == \E i \in DOMAIN s : s[i].op = op
Count(s, op) == Cardinality({i \in DOMAIN s : s[i].op = op})
TheCall(s, op) == s[CHOOSE i \in DOMAIN s : s[i].op = op]
Logged(t, line) == \E i \in DOMAIN log[t] : log[t][i] = line
WarningCount(t) == Cardinality({i \in DOMAIN log[t] : log[t][i].lvl = "WARNING"})
RefreshDone(t) == pc[t] = "returned"
PngsOf(dir) == {f \in DOMAIN dir : IsPng(f)}
FetchFailed(t) == Logged(t, Error("Error fetching image URL"))
FetchedUrl(t) == Logged(t, Info("Fetched image URL"))
Saved(t) == Logged(t, Info("Saved new image"))
ScannedOk(t) ==
    Has(calls[t], "get_latest_saved_image") /\ ~TheCall(calls[t], "get_latest_saved_image").raised
PanelCalls(t) ==
    Count(calls[t], "inky.set_image") + Count(calls[t], "inky.set_border")
        + Count(calls[t], "inky.show")

(***************************************************************************)
(* C1                                                                      *)
(***************************************************************************)
C1_Case(t) == RefreshDone(t) /\ FetchedUrl(t) /\ Saved(t)

C1_Render(t) ==
    /\ Count(calls[t], "image.save") = 1
    /\ Count(calls[t], "update_display") = 1
    /\ TheCall(calls[t], "update_display").arg = Path(TheCall(calls[t], "image.save").name)
    /\ ~Has(calls[t], "get_latest_saved_image")

\* C1 as stated: a refresh whose metadata request yields a URL and whose
\* download succeeds adds exactly one new file to the cache directory, makes
\* exactly one update_display call, on that file, and never consults
\* get_latest_saved_image().
C1_Original ==
    \A t \in Threads :
        C1_Case(t) => C1_Render(t) /\ TheCall(calls[t], "image.save").isNew

\* C1 amended: such a refresh saves exactly one cache file, under the name of
\* the clock second it read before the save; the file is new unless a file
\* of that name is already there (another download read the same second),
\* which it replaces; it makes exactly one update_display call, on that
\* file, and never consults get_latest_saved_image().
C1_Amended ==
    \A t \in Threads :
        C1_Case(t) =>
            LET save == TheCall(calls[t], "image.save")
                stamp == TheCall(calls[t], "datetime.now")
            IN  /\ C1_Render(t)
                /\ Count(calls[t], "datetime.now") = 1
                /\ save.name = PngName(Timestamp(stamp.at))
                /\ stamp.at <= save.at
                /\ save.name \in DOMAIN files
                /\ files[save.name].mtime >= save.at

C1_Witness ==
    \E t \in Threads :
        C1_Case(t) /\ Has(calls[t], "image.save") /\ TheCall(calls[t], "image.save").isNew

(***************************************************************************)
(* C2                                                                      *)
(***************************************************************************)
C2_Case(t) ==
    /\ RefreshDone(t)
    /\ FetchFailed(t)
    /\ ScannedOk(t)
    /\ PngsOf(TheCall(calls[t], "get_latest_saved_image").saw) # {}

\* C2: a refresh whose metadata request fails while the cache directory holds
\* a .png file saves no file and makes exactly one update_display call, whose
\* argument is the .png file of greatest modification time in the directory
\* it scanned.
C2_FallbackToLatest ==
    \A t \in Threads :
        C2_Case(t) =>
            LET saw == TheCall(calls[t], "get_latest_saved_image").saw
                arg == TheCall(calls[t], "update_display").arg
            IN  /\ ~Has(calls[t], "download_image")
                /\ ~Has(calls[t], "image.save")
                /\ Count(calls[t], "update_display") = 1
                /\ IsPath(arg)
                /\ arg.name \in PngsOf(saw)
                /\ \A f \in PngsOf(saw) : saw[f].mtime <= saw[arg.name].mtime

C2_Witness ==
    \E t \in Threads :
        /\ C2_Case(t)
        /\ Cardinality(PngsOf(TheCall(calls[t], "get_latest_saved_image").saw)) >= 2
        /\ IsPath(TheCall(calls[t], "update_display").arg)

(***************************************************************************)
(* C3                                                                      *)
(***************************************************************************)
C3_Case(t) ==
    /\ RefreshDone(t)
    /\ FetchFailed(t)
    /\ ScannedOk(t)
    /\ DOMAIN TheCall(calls[t], "get_latest_saved_image").saw = {}

\* C3 as stated: a refresh with no reachable endpoint and an empty cache
\* directory makes no call on the panel and logs exactly one warning.
C3_Original ==
    \A t \in Threads : C3_Case(t) => PanelCalls(t) = 0 /\ WarningCount(t) = 1

\* C3 amended: such a refresh makes no call on the panel and logs exactly two
\* warnings, "Falling back to last saved image." and then "No valid image
\* found. Skipping update.".
C3_Amended ==
    \A t \in Threads :
        C3_Case(t) =>
            /\ PanelCalls(t) = 0
            /\ Count(calls[t], "update_display") = 1
            /\ TheCall(calls[t], "update_display").arg = None
            /\ WarningCount(t) = 2
            /\ SelectSeq(log[t], LAMBDA l : l.lvl = "WARNING")
                 = <<Warning("Falling back to last saved image."),
                     Warning("No valid image found. Skipping update.")>>

C3_Witness == \E t \in Threads : C3_Case(t) /\ WarningCount(t) = 2

(***************************************************************************)
(* C4                                                                      *)
(***************************************************************************)
PastFallbackDecision ==
    {"update_display", "set_image", "show", "returned"}

\* C4: in every refresh, download_image is called if and only if
\* fetch_image_url returned a reference, and get_latest_saved_image is called
\* if and only if the download step produced no file; each at most once.
C4_StepsFollowOutcomes ==
    \A t \in Threads :
        /\ pc[t] \in PastFallbackDecision \cup {"fallback"} =>
              /\ Has(calls[t], "download_image") <=> Truthy(image_url[t])
              /\ Count(calls[t], "download_image") <= 1
        /\ pc[t] = "download" => Truthy(image_url[t]) /\ ~Has(calls[t], "download_image")
        /\ pc[t] = "save" => Truthy(image_url[t]) /\ Count(calls[t], "download_image") = 1
        /\ pc[t] \in {"download", "save", "fallback"} => ~Has(calls[t], "get_latest_saved_image")
        /\ pc[t] \in PastFallbackDecision =>
              /\ Has(calls[t], "get_latest_saved_image") <=> ~Has(calls[t], "image.save")
              /\ Count(calls[t], "get_latest_saved_image") <= 1

C4_Witness ==
    \E t \in Threads :
        /\ RefreshDone(t)
        /\ Has(calls[t], "download_image")
        /\ ~Has(calls[t], "image.save")
        /\ Has(calls[t], "get_latest_saved_image")

(***************************************************************************)
(* C5                                                                      *)
(***************************************************************************)
\* C5 as stated: whatever the outcomes of the metadata request, the download,
\* the directory scan and the render, refresh_image() returns to its caller:
\* no thread is ever ended by an exception.
C5_NoFatalOutcome == \A t \in Threads : pc[t] \notin {"crashed", "exited"}

(***************************************************************************)
(* C6                                                                      *)
(***************************************************************************)
Is2xx(status) == 200 <= status /\ status < 300

\* The images.small string of a body, if it has one.
HasSmallString(body) ==
    /\ body.t = "dict"
    /\ "images" \in DOMAIN body.m
    /\ body.m.images.t = "dict"
    /\ "small" \in DOMAIN body.m.images.m
    /\ body.m.images.m.small.t = "str"

SmallIsMissing(body) ==
    \/ body.t # "dict"
    \/ "images" \notin DOMAIN body.m
    \/ body.m.images.t # "dict"
    \/ "small" \notin DOMAIN body.m.images.m
    \/ body.m.images.m.small = None

\* C6 as stated: fetch_image_url() returns None, raising nothing, on a non-2xx
\* status, on a body that is not JSON and on a JSON body without
\* images.small (top-level value or "images" value not an object included);
\* on a body with a non-empty images.small string it returns that string.
C6_FetchContract ==
    (fetched # NotFetched /\ resp.kind = "http") =>
        /\ (~Is2xx(resp.status) \/ resp.body = Malformed \/ SmallIsMissing(resp.body)) =>
              fetched.exc = "none" /\ fetched.ret = None
        /\ (Is2xx(resp.status) /\ resp.body # Malformed /\ HasSmallString(resp.body)
                /\ resp.body.m.images.m.small.v # "") =>
              fetched.exc = "none" /\ fetched.ret = resp.body.m.images.m.small

(***************************************************************************)
(* C7                                                                      *)
(***************************************************************************)
\* C7: every edge event the listener handles produces one log line; an event
\* on button B's line starts exactly one refresh_image() and an event on any
\* other line starts none, so the refreshes the listener has started are as
\* many as the B events it has handled.
C7_RefreshPerBEvent ==
    /\ pressLog = handled
    /\ started[Btn] = handledB

C7_Witness == handled = 1 /\ handledB = 1 /\ started[Btn] = 1 /\ pressLog = 1

(***************************************************************************)
(* C8                                                                      *)
(***************************************************************************)
\* C8: nothing serializes the panel: a thread that has reached set_image can
\* always go on, wherever the other thread is, so both refreshes can be
\* between set_image and show at once.
C8_NoPanelLock ==
    \A t \in Threads :
        (pc[t] = "set_image" /\ pc[Sched] # "exited") => ENABLED SetImage(t)

C8_Witness ==
    /\ pc[Sched] \in PanelSection
    /\ pc[Btn] \in PanelSection
    /\ started[Sched] = 1
    /\ started[Btn] = 1

(***************************************************************************)
(* C9                                                                      *)
(***************************************************************************)
BothSaved == \A t \in Threads : Has(calls[t], "image.save")

\* C9 as stated: two overlapping refreshes whose downloads both succeed write
\* two distinct files.
C9_Original ==
    BothSaved =>
        TheCall(calls[Sched], "image.save").name # TheCall(calls[Btn], "image.save").name

\* C9 amended: two overlapping refreshes whose downloads both succeed write
\* two distinct files exactly when the two downloads read different clock
\* seconds for their time stamps; two downloads that read the same second
\* write the same file, whenever each of them saves.
C9_Amended ==
    BothSaved =>
        LET a == TheCall(calls[Sched], "image.save")
            b == TheCall(calls[Btn], "image.save")
            sa == TheCall(calls[Sched], "datetime.now")
            sb == TheCall(calls[Btn], "datetime.now")
        IN  (a.name = b.name) <=> (sa.at = sb.at)

\* Two files, the first of them saved in the second the other one was
\* stamped in.
C9_Witness ==
    /\ BothSaved
    /\ TheCall(calls[Sched], "datetime.now").at # TheCall(calls[Btn], "datetime.now").at
    /\ TheCall(calls[Sched], "image.save").name # TheCall(calls[Btn], "image.save").name
    /\ TheCall(calls[Sched], "image.save").at = TheCall(calls[Btn], "image.save").at

(***************************************************************************)
(* C10                                                                     *)
(***************************************************************************)
\* C10 as stated: the set of cache files never shrinks, and a file that
\* download_image has created never changes content afterwards.
C10_Original ==
    [][\A f \in DOMAIN files :
          /\ f \in DOMAIN files'
          /\ f \in made => files'[f].content = files[f].content]_vars

\* C10 amended: the set of cache files never shrinks, and a file changes only
\* when download_image saves again under its name, which only a download
\* does that read its time stamp in the clock second the name encodes.
C10_Amended ==
    [][\A f \in DOMAIN files :
          /\ f \in DOMAIN files'
          /\ files'[f] # files[f] =>
                \E t \in Threads :
                    /\ pc[t] = "save" /\ pc'[t] = "update_display"
                    /\ image_path[t] = Path(f)
                    /\ f = PngName(Timestamp(TheCall(calls[t], "datetime.now").at))
                    /\ TheCall(calls[t], "datetime.now").at <= now]_vars

C10_Witness ==
    \E t \in Threads :
        /\ Has(calls[t], "image.save")
        /\ ~TheCall(calls[t], "image.save").isNew
        /\ files[TheCall(calls[t], "image.save").name].content = "imgB"

(***************************************************************************)
(* C11                                                                     *)
(***************************************************************************)
\* The files get_latest_saved_image may return: the .png files of scan.dir of
\* greatest modification time.
NewestPngs(dir) ==
    {f \in PngsOf(dir) : \A g \in PngsOf(dir) : dir[g].mtime <= dir[f].mtime}

\* C11: get_latest_saved_image() returns None when the directory holds no
\* .png file or cannot be read; otherwise it returns the path of a .png file
\* of the directory whose modification time no other .png file exceeds,
\* whatever the listing order and whatever the names.
C11_LatestIsNewest ==
    latest # NotScanned =>
        IF ~scan.readable \/ PngsOf(scan.dir) = {}
        THEN latest = None
        ELSE IsPath(latest) /\ latest.name \in NewestPngs(scan.dir)

\* The newest .png is neither first in the listing nor greatest by name, and
\* a file that is not an image is newer still.
C11_Witness ==
    /\ latest # NotScanned
    /\ scan.readable
    /\ IsPath(latest)
    /\ latest.name = Old1
    /\ PngsOf(scan.dir) = {Old1, Old2, PngName(<<1, 0, 0>>)}
    /\ Note \in DOMAIN scan.dir
    /\ scan.dir[Note].mtime > scan.dir[Old1].mtime
    /\ scan.listing[1] # Old1
    /\ scan.listing[Len(scan.listing)] # Old1

(***************************************************************************)
(* C12                                                                     *)
(***************************************************************************)
\* C12: at every minute m and second s, the sleep auto_refresh computes is
\* (60 - m) * 60 - s seconds, lies in 1..3600 and ends exactly on minute 0,
\* second 0 of the next hour (3600 at the top of an hour, never 0); after
\* the sleep refresh_image() is invoked once.
C12_SleepToNextHour ==
    /\ (pc[Sched] = "sleep" /\ now < wake) =>
          /\ wake - now = (60 - Minute(now)) * 60 - Second(now)
          /\ wake - now \in 1..3600
          /\ Minute(wake) = 0 /\ Second(wake) = 0
          /\ wake \div 3600 = now \div 3600 + 1
    /\ pc[Sched] = "sleep" => now <= wake /\ started[Sched] = 0
    /\ pc[Sched] = "fetch" => now = wake /\ started[Sched] = 1

\* At exactly 23:00:00 the scheduler sleeps the whole hour, to midnight.
C12_Witness ==
    /\ pc[Sched] = "sleep"
    /\ now = 23 * 3600
    /\ wake = 24 * 3600

(***************************************************************************)
(* C13                                                                     *)
(***************************************************************************)
\* The hour boundaries that have passed since the scheduler started.
Crossed == Boundaries(StartTime, now)

\* The scheduler sleeps between refreshes, the boundary it waits for ahead.
Asleep == pc[Sched] = "sleep" /\ now < wake

\* C13 as stated: whatever the duration of a refresh, the scheduled refreshes
\* and the hour boundaries that have passed correspond one to one.
C13_Original == Asleep => started[Sched] = Crossed

\* C13 amended: the scheduler always sleeps to the first hour boundary after
\* the moment the preceding refresh returned, and invokes refresh_image()
\* once for that boundary; a boundary that passes while a refresh is still
\* in progress gets no invocation, so refreshes plus boundaries passed
\* during a refresh equal the boundaries passed.
C13_Amended ==
    /\ pc[Sched] = "sleep" =>
          /\ wake % 3600 = 0
          /\ now <= wake
          /\ wake - now <= 3600
    /\ pc[Sched] # "loop" =>
          started[Sched] + missed + (IF pc[Sched] = "sleep" /\ now = wake THEN 1 ELSE 0) = Crossed

\* Two boundaries, two refreshes, the first of which ran for half an hour.
C13_Witness ==
    /\ Asleep
    /\ started[Sched] = 2
    /\ finished[Sched] = 2
    /\ missed = 0
    /\ Crossed = 2
    /\ now >= StartTime + Lead + 3600 + HalfHour

(***************************************************************************)
(* C14                                                                     *)
(***************************************************************************)
\* The refresh_image() invocations of thread t that are in progress.
InProgress(t) == started[t] - finished[t]

\* C14: each thread has at most one refresh_image() in progress: a refresh
\* starts only after the thread's previous one has returned, the listener
\* handles no further event while its refresh runs, and at most two
\* invocations are in progress at once.
C14_OneRefreshPerContext ==
    /\ \A t \in Threads :
          /\ InProgress(t) \in {0, 1}
          /\ InRefresh(t) => InProgress(t) = 1
          /\ pc[t] \in {"loop", "sleep", "read", "events"} => InProgress(t) = 0
    /\ InRefresh(Btn) => started[Btn] = handledB
    /\ InProgress(Sched) + InProgress(Btn) <= 2

\* The listener's second refresh, started after its first returned, runs
\* while the scheduler's refresh runs; the second press was read in the same
\* batch as the first.
C14_Witness ==
    /\ started[Btn] = 2
    /\ finished[Btn] = 1
    /\ InRefresh(Btn)
    /\ InRefresh(Sched)
    /\ handled = 2
    /\ quota = 2

(***************************************************************************)
(* C15                                                                     *)
(***************************************************************************)
SetImageCalls(t) == SelectSeq(calls[t], LAMBDA c : c.op = "inky.set_image")

\* C15: on a panel whose set_image rejects saturation with TypeError,
\* update_display retries set_image once, without saturation, and goes on to
\* show(); a render makes at most two set_image calls and at most one show
\* call; when the retry fails the error is logged, nothing is committed and
\* refresh_image() returns.
C15_RetryOnce ==
    \A t \in Threads :
        /\ Len(SetImageCalls(t)) <= 2
        /\ Count(calls[t], "inky.show") <= 1
        /\ (~inkySat /\ SetImageCalls(t) # <<>>) =>
              /\ SetImageCalls(t) = <<SetImageSat, SetImagePlain>>
              /\ pc[t] \in {"show", "returned"}
              /\ (RefreshDone(t) /\ ~Has(calls[t], "inky.show")) =>
                    /\ Logged(t, Error("Error displaying image"))
                    /\ ~Logged(t, Info("Display updated"))
        /\ (~inkySat /\ pc[t] = "show") => SetImageCalls(t) = <<SetImageSat, SetImagePlain>>
        /\ (inkySat /\ pc[t] = "show") =>
              \/ SetImageCalls(t) = <<SetImageSat>>
              \/ /\ SetImageCalls(t) = <<SetImageSat, SetImagePlain>>
                 /\ Has(calls[t], "inky.set_border")

\* The retry succeeded and the frame was committed.
C15_Witness ==
    \E t \in Threads :
        /\ RefreshDone(t)
        /\ ~inkySat
        /\ SetImageCalls(t) = <<SetImageSat, SetImagePlain>>
        /\ Has(calls[t], "inky.show")
        /\ Logged(t, Info("Display updated"))
        /\ inkyShown # NoImage

(***************************************************************************)
(* C16                                                                     *)
(***************************************************************************)
\* C16 as stated: every update_display call that reaches show() has called
\* set_border before it, on the saturation path and on the fallback path.
C16_BorderBeforeShow ==
    \A t \in Threads :
        \A i \in DOMAIN calls[t] :
            calls[t][i].op = "inky.show" =>
                \E j \in 1..(i - 1) : calls[t][j] = SetBorderBlack

(***************************************************************************)
(* C17                                                                     *)
(***************************************************************************)
\* update_display was called without a record.
NoRecord(t) ==
    Has(calls[t], "update_display") /\ TheCall(calls[t], "update_display").arg = None

\* C17: a refresh that obtains no record makes no set_image, set_border or
\* show call and logs the skipped update; the panel's buffer and committed
\* frame change only in set_image and show steps of a refresh that holds a
\* record, so a refresh without one leaves the panel as it was.
C17_NoRecordNoRender ==
    /\ [](\A t \in Threads :
            NoRecord(t) =>
                /\ PanelCalls(t) = 0
                /\ RefreshDone(t)
                /\ Logged(t, Warning("No valid image found. Skipping update.")))
    /\ [][(inkyBuf' # inkyBuf \/ inkyShown' # inkyShown) =>
             \E t \in Threads :
                 /\ pc[t] \in {"set_image", "show"}
                 /\ pc'[t] # pc[t]
                 /\ PathTruthy(image_path[t])]_vars

\* A refresh found no record while the panel shows an earlier committed frame.
C17_Witness ==
    \E t \in Threads :
        /\ RefreshDone(t)
        /\ NoRecord(t)
        /\ inkyShown # NoImage

(***************************************************************************)
(* C18                                                                     *)
(***************************************************************************)
\* C18 as stated: under fair scheduling every refresh_image() in progress
\* runs to completion, after which the scheduler is back in its sleep and
\* the listener back in its blocking read.
C18_RefreshCompletes ==
    /\ InRefresh(Sched) ~> pc[Sched] = "sleep"
    /\ InRefresh(Btn) ~> pc[Btn] = "read"

(***************************************************************************)
(* C19                                                                     *)
(***************************************************************************)
\* The place of a call in the order of refresh_image().
Rank(c) ==
    CASE c.op = "fetch_image_url" -> 1
      [] c.op = "download_image" -> 2
      [] c.op = "datetime.now" -> 3
      [] c.op = "image.save" -> 4
      [] c.op = "get_latest_saved_image" -> 5
      [] c.op = "update_display" -> 6
      [] c.op \in {"inky.set_image", "inky.set_border"} -> 7
      [] c.op = "inky.show" -> 8

OnceOps ==
    {"fetch_image_url", "download_image", "datetime.now", "image.save", "get_latest_saved_image",
     "update_display", "inky.show"}

DownloadFailed(t) ==
    \/ Logged(t, Error("Error downloading image"))
    \/ Logged(t, Error("Unexpected error processing image"))

\* C19: the calls of one refresh_image() come in the order metadata fetch,
\* download, cache scan, render; the metadata request, the image request,
\* the file write, the scan and the commit happen at most once each; a
\* download that fails returns None and has written no cache file.
C19_FixedOrder ==
    /\ [](\A t \in Threads :
            /\ \A i, j \in DOMAIN calls[t] : i < j => Rank(calls[t][i]) <= Rank(calls[t][j])
            /\ \A op \in OnceOps : Count(calls[t], op) <= 1
            /\ calls[t] # <<>> => calls[t][1].op = "fetch_image_url"
            /\ DownloadFailed(t) =>
                  /\ Has(calls[t], "download_image")
                  /\ ~Has(calls[t], "image.save")
                  /\ pc[t] = "fallback" => image_path[t] = None)
    /\ [][\A t \in Threads :
             (pc[t] \in {"download", "save"} /\ pc'[t] = "fallback") => files' = files]_vars

\* Fetch, a download that failed, the scan and a committed frame, in one refresh.
C19_Witness ==
    \E t \in Threads :
        /\ RefreshDone(t)
        /\ DownloadFailed(t)
        /\ Has(calls[t], "get_latest_saved_image")
        /\ Has(calls[t], "inky.show")
        /\ Len(calls[t]) >= 6

====
